---------------------------- MODULE Spec2Model ----------------------------
(***************************************************************************)
(* Timing-Error-Detector-Simulation: PulseShaper (src/PulseShaper.py),     *)
(* TimingErrorDetector (src/TimingErrorDetector.py) and the sweep of       *)
(* src/testbench.py, as state machines.                                    *)
(*                                                                         *)
(* Numbers.  The program computes in IEEE-754 binary64.  The model keeps   *)
(* the format's structure and shrinks its widths: a float is an integer    *)
(* count of quanta of 2^-FracBits (the subnormal spacing) with at most     *)
(* MantBits significant bits; every arithmetic operation rounds its exact  *)
(* result to the nearest representable value, ties to even.  The exponent  *)
(* is unbounded above (no overflow to infinity, no NaN).  A complex sample *)
(* is a pair <<re, im>> of floats.                                         *)
(***************************************************************************)
EXTENDS Integers, Sequences, FiniteSets, TLC

(***************************************************************************)
(* Bounds of the model.                                                    *)
(***************************************************************************)
FracBits == 5
MantBits == 3
MaxSignalLen == 3
MaxRcTaps == 3
MaxDelay == 3
MaxSincTaps == 3
MaxSymbols == 2
MaxShort == 2
MaxTail == 2

(***************************************************************************)
(* Program constants.                                                      *)
(***************************************************************************)
InterpFactor == 32
Preamble == 30
DefaultDelta == 4

(***************************************************************************)
(* Floating point.                                                         *)
(***************************************************************************)
RECURSIVE Pow2(_)
Pow2(n) == IF n <= 0 THEN 1 ELSE 2 * Pow2(n - 1)

One == Pow2(FracBits)

Abs(x) == IF x < 0 THEN -x ELSE x

Sgn(x) == IF x > 0 THEN 1 ELSE IF x < 0 THEN -1 ELSE 0

Max(x, y) == IF x > y THEN x ELSE y
Min(x, y) == IF x < y THEN x ELSE y

RECURSIVE GridFrom(_, _)
GridFrom(m, g) == IF m < Pow2(MantBits) * g THEN g ELSE GridFrom(m, 2 * g)

\* spacing of the representable values around magnitude m (in quanta)
Grid(m) == GridFrom(m, 1)

Representable(x) == Abs(x) % Grid(Abs(x)) = 0

\* num/den quanta (den > 0) rounded to the nearest float, ties to even
RoundRat(num, den) ==
    LET a == Abs(num)
        g == Grid(a \div den)
        k == a \div (den * g)
        r == a - k * den * g
        up == \/ 2 * r > den * g
              \/ (2 * r = den * g /\ k % 2 = 1)
    IN  Sgn(num) * (IF up THEN k + 1 ELSE k) * g

FAdd(a, b) == RoundRat(a + b, 1)
FSub(a, b) == RoundRat(a - b, 1)
FMul(a, b) == RoundRat(a * b, One)
FDiv(a, b) == RoundRat(Sgn(b) * a * One, Abs(b))

\* int -> float
FromInt(n) == RoundRat(n * One, 1)

\* int(x): truncation toward zero
Trunc(x) == Sgn(x) * (Abs(x) \div One)

\* C fmod: exact, sign of the dividend
CFmod(a, b) == Sgn(a) * (Abs(a) % Abs(b))

\* float % (b # 0): fmod, then one rounded addition of the divisor when the
\* remainder's sign differs from the divisor's
FMod(a, b) ==
    LET m == CFmod(a, b)
    IN  IF m # 0 /\ ((b < 0) # (m < 0)) THEN FAdd(m, b) ELSE m

\* floor(sqrt(n)) for 0 <= n, searched between lo and hi
ISqrt(n, lo, hi) == CHOOSE r \in lo..hi : r * r <= n /\ n < (r + 1) * (r + 1)

(***************************************************************************)
(* Complex numbers.                                                        *)
(***************************************************************************)
Re(z) == z[1]
Im(z) == z[2]
Cx(re, im) == <<re, im>>
Conj(z) == <<z[1], -z[2]>>
CAdd(x, y) == <<FAdd(x[1], y[1]), FAdd(x[2], y[2])>>
CSub(x, y) == <<FSub(x[1], y[1]), FSub(x[2], y[2])>>
CMul(x, y) == <<FSub(FMul(x[1], y[1]), FMul(x[2], y[2])),
                FAdd(FMul(x[1], y[2]), FMul(x[2], y[1]))>>
CNeg(x) == <<-x[1], -x[2]>>

\* np.abs of a complex sample: sqrt(re^2 + im^2), rounded once
CAbs(z) ==
    LET n == z[1] * z[1] + z[2] * z[2]
        a == Abs(z[1])
        b == Abs(z[2])
        s == ISqrt(n, IF a > b THEN a ELSE b, a + b)
        g == Grid(s)
        k == s \div g
        mid2 == 2 * k * g + g            \* twice the midpoint of k*g, (k+1)*g
        up == \/ 4 * n > mid2 * mid2
              \/ (4 * n = mid2 * mid2 /\ k % 2 = 1)
    IN  (IF up THEN k + 1 ELSE k) * g

\* np.sign of a real
Sign(x) == Sgn(x) * One

(***************************************************************************)
(* Python sequences (0-based indices on 1-based TLA+ sequences).           *)
(***************************************************************************)
InRange(s, i) == -Len(s) <= i /\ i < Len(s)

\* s[i], negative indices counting from the end
PyGet(s, i) == IF i >= 0 THEN s[i + 1] ELSE s[Len(s) + i + 1]

Last(s) == s[Len(s)]

\* the bound of a slice, clipped as Python clips it
Clip(n, i) == IF i < 0 THEN (IF n + i < 0 THEN 0 ELSE n + i)
              ELSE (IF i > n THEN n ELSE i)

\* s[a:b]
Slice(s, a, b) ==
    LET lo == Clip(Len(s), a)
        hi == Clip(Len(s), b)
    IN  IF hi <= lo THEN <<>> ELSE [j \in 1..(hi - lo) |-> s[lo + j]]

\* s[a:]
SliceFrom(s, a) == Slice(s, a, Len(s))

Zeros(n) == [j \in 1..n |-> 0]


(***************************************************************************)
(* TimingErrorDetector.                                                    *)
(***************************************************************************)

\* scipy.signal.resample_poly(signal, up, 1): len(signal) * up samples.  The
\* library's anti-imaging FIR is abstracted to the two-taps-per-phase
\* (triangular) kernel: sample j*up + r lies between signal[j] and
\* signal[j+1] (zero past the end), and sample j*up is signal[j].
ResamplePoly(sig, up) ==
    [n \in 1..(Len(sig) * up) |->
        LET j == (n - 1) \div up
            r == (n - 1) % up
            a == sig[j + 1]
            b == IF j + 2 <= Len(sig) THEN sig[j + 2] ELSE <<0, 0>>
        IN  <<RoundRat(a[1] * (up - r) + b[1] * r, up),
              RoundRat(a[2] * (up - r) + b[2] * r, up)>>]

\* interpolator: the factor is the local `upsample = 32`, not self.upsample
Interpolate(sig, self_upsample) == ResamplePoly(sig, InterpFactor)

\* a real scalar (a decision, 0 or +-1.0) as a complex operand
OfReal(x) == <<x, 0>>

\* a Mueller-Muller metric that decides before it computes the error
mueller_mullerDecideFirst(val_cur, val_prev, symbol_prev) ==
    LET symbol_cur == Sign(Re(val_cur))
    IN  Re(CSub(CMul(val_cur, Conj(OfReal(symbol_cur))),
                CMul(OfReal(symbol_cur), Conj(val_prev))))

mueller_muller(val_cur, val_prev, symbol_prev) ==
    LET symbol_cur == Sign(Re(val_cur))
    IN  Re(CSub(CMul(val_cur, Conj(OfReal(symbol_prev))),
                CMul(OfReal(symbol_cur), Conj(val_prev))))

\* a Gardner metric of the opposite sign
gardnerOpposite(val_cur, val_prev, val_middle) ==
    Re(CMul(Conj(val_middle), CSub(val_prev, val_cur)))

gardner(val_cur, val_prev, val_middle) ==
    Re(CMul(Conj(val_middle), CSub(val_cur, val_prev)))

earlylategate(val_early, val_late) ==
    LET a == CAbs(val_early)
    IN  FSub(FMul(a, a), CAbs(val_late))

\* offset_cur = i_cur*self.upsample + int(tau*self.upsample)
OffsetCur(i_cur, tau, up) == i_cur * up + Trunc(FMul(tau, FromInt(up)))

\* int(sps*self.upsample/2)
HalfSymbol(sps, up) == Trunc(FDiv(FromInt(sps * up), FromInt(2)))

\* shift = int((sps / delta) * self.upsample)
Shift(sps, delta, up) == Trunc(FMul(FDiv(FromInt(sps), FromInt(delta)), FromInt(up)))

\* the guard of the Early-Late Gate branch: not enough samples ahead
Starved(buf, offset_cur, shift) == offset_cur + shift > Len(buf)

\* The error of one iteration: [exc, e, reads].  exc = "" when the branch
\* appended e to the error trace; reads lists the buffer indices it read.
MetricError(L, A, buf, up, offset_cur, val_cur, val_prev) ==
    CASE A.error_eq = "mueller" ->
            [exc |-> "", e |-> mueller_muller(val_cur, val_prev, L.symbol_prev),
             reads |-> <<>>]
      [] A.error_eq = "gardner" ->
            LET im == offset_cur - HalfSymbol(A.sps, up)
            IN  IF ~InRange(buf, im)
                THEN [exc |-> "IndexError", e |-> 0, reads |-> <<im>>]
                ELSE [exc |-> "",
                      e |-> -gardner(val_cur, val_prev, PyGet(buf, im)),
                      reads |-> <<im>>]
      [] A.error_eq = "earlylategate" ->
            LET shift == Shift(A.sps, A.delta, up)
                ie == offset_cur - shift
                il == offset_cur + shift
            IN  IF Starved(buf, offset_cur, shift)
                THEN IF L.error = <<>>
                     THEN [exc |-> "IndexError", e |-> 0, reads |-> <<>>]
                     ELSE [exc |-> "", e |-> Last(L.error), reads |-> <<>>]
                ELSE IF ~InRange(buf, ie)
                     THEN [exc |-> "IndexError", e |-> 0, reads |-> <<ie>>]
                     ELSE IF ~InRange(buf, il)
                          THEN [exc |-> "IndexError", e |-> 0, reads |-> <<ie, il>>]
                          ELSE [exc |-> "",
                                e |-> -earlylategate(PyGet(buf, ie), PyGet(buf, il)),
                                reads |-> <<ie, il>>]

\* the integral term after the loop-filter update
FilterV(L, A, e) == IF A.use_pi THEN FAdd(L.v, FMul(A.Ki, e)) ELSE L.v

\* a loop filter that adds the integral term of the iteration before
FilterTauStaleIntegral(L, A, e) ==
    IF A.use_pi
    THEN FAdd(L.tau, FAdd(L.v, FMul(A.Kp, e)))
    ELSE FAdd(L.tau, FMul(A.gain, e))

\* tau after the loop-filter update, before the wrap
FilterTau(L, A, e) ==
    IF A.use_pi
    THEN FAdd(L.tau, FAdd(FilterV(L, A, e), FMul(A.Kp, e)))
    ELSE FAdd(L.tau, FMul(A.gain, e))

\* tau %= sps
Wrap(tau, sps) == FMod(tau, FromInt(sps))

\* the locals of main on entry
MainEntry(A, buf) ==
    [i_cur |-> A.sps, tau |-> A.tau, v |-> 0, symbol_prev |-> A.symbol_prev,
     error |-> <<>>, offset |-> <<>>, symbols_pred |-> <<A.symbol_prev>>,
     out_signal |-> <<buf[1]>>, reads |-> <<>>, exc |-> ""]

Raise(L, kind, reads) == [L EXCEPT !.exc = kind, !.reads = reads]

\* one pass through the body of `while i_cur < num_samples`
MainStep(L, A, buf, up) ==
    LET offset_cur == OffsetCur(L.i_cur, L.tau, up)
        ip == offset_cur - A.sps * up
    IN  IF ~InRange(buf, offset_cur) THEN Raise(L, "IndexError", <<offset_cur>>)
        ELSE IF ~InRange(buf, ip) THEN Raise(L, "IndexError", <<offset_cur, ip>>)
        ELSE
        LET val_cur == PyGet(buf, offset_cur)
            val_prev == PyGet(buf, ip)
            m == MetricError(L, A, buf, up, offset_cur, val_cur, val_prev)
        IN  IF m.exc # "" THEN Raise(L, m.exc, <<offset_cur, ip>> \o m.reads)
            ELSE
            LET decision == Sign(Re(val_cur))
                tau1 == Wrap(FilterTau(L, A, m.e), A.sps)
            IN  [i_cur |-> L.i_cur + A.sps,
                 tau |-> tau1,
                 v |-> FilterV(L, A, m.e),
                 symbol_prev |-> decision,
                 error |-> Append(L.error, m.e),
                 offset |-> Append(L.offset, tau1),
                 symbols_pred |-> Append(L.symbols_pred, decision),
                 out_signal |-> Append(L.out_signal, val_cur),
                 reads |-> <<offset_cur, ip>> \o m.reads,
                 exc |-> ""]

\* main from entry to return (or to the exception that ends it)
RECURSIVE RunLoop(_, _, _, _)
RunLoop(L, A, buf, up) ==
    IF L.exc # "" \/ ~(L.i_cur < A.num_samples) THEN L
    ELSE RunLoop(MainStep(L, A, buf, up), A, buf, up)


\* np.array(a) == b for one-dimensional a, b: equal shapes, or one of them
\* of length 1 (broadcast)
Comparable(a, b) == Len(a) = Len(b) \/ Len(a) = 1 \/ Len(b) = 1

\* np.sum(a == b), the decisions (floats) against the symbols (ints)
RECURSIVE CountEqual(_, _, _)
CountEqual(a, b, n) ==
    IF n = 0 \/ a = <<>> \/ b = <<>> THEN 0
    ELSE LET x == IF Len(a) = 1 THEN a[1] ELSE a[n]
             y == IF Len(b) = 1 THEN b[1] ELSE b[n]
         IN  CountEqual(a, b, n - 1) + (IF x = FromInt(y) THEN 1 ELSE 0)

\* a results that leaves the initial condition out of the comparison
ComparedPartSkipFirst(s, keep_all) ==
    IF keep_all THEN SliceFrom(s, 1) ELSE SliceFrom(s, Preamble)

\* the part of a trace results compares: all of it, or [30:]
ComparedPart(s, keep_all) == IF keep_all THEN s ELSE SliceFrom(s, Preamble)

\* results.  legacy: a NumPy that answers False for arrays of unequal shape,
\* where a newer one raises.  A percentage is kept exact, as <<num, den>>.
Results(symbols_pred, offset, symbols, keep_all, legacy) ==
    LET a == ComparedPart(symbols_pred, keep_all)
        b == ComparedPart(symbols, keep_all)
        num_symbols == Len(b)
        num_correct == IF Comparable(a, b)
                       THEN CountEqual(a, b, Max(Len(a), Len(b)))
                       ELSE 0
        base == [exc |-> "", nan |-> FALSE, num_correct |-> 0, num_symbols |-> 0,
                 perc_correct |-> <<0, 1>>, ber |-> <<0, 1>>, final_offset |-> 0,
                 symbols |-> symbols, keep_all |-> keep_all]
    IN  IF ~Comparable(a, b) /\ ~legacy THEN [base EXCEPT !.exc = "ValueError"]
        ELSE IF offset = <<>> THEN [base EXCEPT !.exc = "IndexError"]
        ELSE IF num_symbols = 0
             THEN [base EXCEPT !.nan = TRUE, !.final_offset = Last(offset)]
             ELSE [base EXCEPT !.num_correct = num_correct,
                               !.num_symbols = num_symbols,
                               !.perc_correct = <<num_correct * 100, num_symbols>>,
                               !.ber = <<(num_symbols - num_correct) * 100, num_symbols>>,
                               !.final_offset = Last(offset)]

(***************************************************************************)
(* PulseShaper.                                                            *)
(***************************************************************************)

\* np.arange(start, stop, step), step # 0
RECURSIVE Arange(_, _, _)
Arange(start, stop, step) ==
    IF (step > 0 /\ start >= stop) \/ (step < 0 /\ start <= stop) THEN <<>>
    ELSE <<start>> \o Arange(start + step, stop, step)

Flip(s) == [j \in 1..Len(s) |-> s[Len(s) + 1 - j]]

\* np.delete(s, i) for 0 <= i < len(s)
Delete(s, i) == [j \in 1..(Len(s) - 1) |-> IF j <= i THEN s[j] ELSE s[j + 1]]

\* One tap of commpy.rcosfilter(N, alpha, Ts, 1) at sample x, t = x - N/2.
\* The library's closed form is abstracted: 1.0 at t = 0, 0 at the other
\* multiples of Ts, and a value that decays with |t| in between.
RcosTap(N, Ts, x) ==
    LET u == 2 * x - N          \* 2t
    IN  IF u = 0 THEN One
        ELSE IF u % (2 * Ts) = 0 THEN 0
        ELSE RoundRat(One, 1 + Abs(u))

\* createrc: rcosfilter(rc_taps + 1, ...)[1:]
RaisedCosine(rc_taps, sps) ==
    [x \in 1..rc_taps |-> RcosTap(rc_taps + 1, sps, x)]

\* createrc: zero_crossings, before the middle entry is deleted
ZeroCrossingsAll(rc_taps, sps) ==
    Flip(Arange((rc_taps \div 2) - sps, -1, -sps)) \o Arange(rc_taps \div 2, rc_taps, sps)

ZeroCrossings(rc_taps, sps) ==
    LET z == ZeroCrossingsAll(rc_taps, sps)
    IN  Delete(z, Len(z) \div 2)

\* __init__: stores its arguments and builds the raised cosine; it checks none
PulseShaperInit(rc_taps, rolloff, sps, int_delay, frac_delay, sinc_taps, snr) ==
    [rc_taps |-> rc_taps, rolloff |-> rolloff, sps |-> sps,
     raised_cosine |-> RaisedCosine(rc_taps, sps),
     zero_crossings |-> ZeroCrossings(rc_taps, sps),
     int_delay |-> int_delay, frac_delay |-> frac_delay,
     sinc_taps |-> sinc_taps, snr |-> snr,
     pulse_shaped |-> <<>>, pulse_shaped_delayed |-> <<>>,
     pulse_shaped_delayed_noise |-> <<>>]

\* sum over k = lo..hi of a[k] * v[n - k + 1], accumulated left to right
RECURSIVE ConvSum(_, _, _, _, _)
ConvSum(a, v, n, lo, hi) ==
    IF hi < lo THEN 0
    ELSE FAdd(ConvSum(a, v, n, lo, hi - 1), FMul(a[hi], v[n - hi + 1]))

\* np.convolve(a, v), mode 'full', both non-empty
Convolve(a, v) ==
    [n \in 1..(Len(a) + Len(v) - 1) |->
        ConvSum(a, v, n, Max(1, n - Len(v) + 1), Min(Len(a), n))]

\* x[(taps - 1) // 2 : -(taps - 1) // 2]; the stop is (-(taps - 1)) // 2
TrimEdges(x, taps) == Slice(x, (taps - 1) \div 2, (-(taps - 1)) \div 2)

\* pulseshaping: [exc, out]
Pulseshaping(self, pulses, keep_edges) ==
    IF pulses = <<>> \/ self.raised_cosine = <<>>
    THEN [exc |-> "ValueError", out |-> <<>>]
    ELSE LET full == Convolve(pulses, self.raised_cosine)
         IN  [exc |-> "",
              out |-> IF keep_edges THEN full ELSE TrimEdges(full, self.rc_taps)]

\* the integer delay of fractionaldelay
IntDelayed(pulse_shaped, int_delay) ==
    IF int_delay # 0
    THEN Zeros(int_delay) \o Slice(pulse_shaped, 0, -int_delay)
    ELSE pulse_shaped

\* n = np.arange(-(sinc_taps-1)//2, sinc_taps//2 + 1)
SincIndex(sinc_taps) == Arange((-(sinc_taps - 1)) \div 2, (sinc_taps \div 2) + 1, 1)

\* np.hamming(M) has M entries, none for M < 1
HammingLen(M) == IF M < 1 THEN 0 ELSE M

\* n - frac_delay against the window: equal lengths, or one of them 1
Broadcastable(a, b) == a = b \/ a = 1 \/ b = 1
BroadcastLen(a, b) == IF a = 1 THEN b ELSE a

\* sinc(n - frac_delay) * hamming(sinc_taps), normalised to sum 1.  The tap
\* values are abstracted to the two-tap kernel with the same sum: 1 - d at
\* n = 0 and d at n = 1 (all of it at n = 0 when the kernel has no n = 1).
SincDelay(sinc_taps, frac_delay) ==
    LET n == SincIndex(sinc_taps)
        len == BroadcastLen(Len(n), HammingLen(sinc_taps))
        has1 == \E j \in 1..len : j <= Len(n) /\ n[j] = 1
    IN  [j \in 1..len |->
            LET nj == IF Len(n) = 1 THEN n[1] ELSE n[j]
            IN  IF nj = 0 THEN (IF has1 THEN FSub(One, frac_delay) ELSE One)
                ELSE IF nj = 1 THEN frac_delay
                ELSE 0]

\* fractionaldelay: [exc, out]
Fractionaldelay(self, keep_edges) ==
    LET d == IntDelayed(self.pulse_shaped, self.int_delay)
    IN  IF self.frac_delay = 0 THEN [exc |-> "", out |-> d]
        ELSE IF ~Broadcastable(Len(SincIndex(self.sinc_taps)), HammingLen(self.sinc_taps))
        THEN [exc |-> "ValueError", out |-> <<>>]
        ELSE LET k == SincDelay(self.sinc_taps, self.frac_delay)
             IN  IF k = <<>> \/ d = <<>>
                 THEN [exc |-> "ValueError", out |-> <<>>]
                 ELSE LET full == Convolve(d, k)
                      IN  [exc |-> "",
                           out |-> IF keep_edges THEN full
                                   ELSE TrimEdges(full, self.sinc_taps)]

\* the k-th draw of the seeded generator, of unit scale
Randn(seed, k) == ((seed + 2 * k) % 3) - 1

\* noise: the delayed pulses plus Gaussian draws scaled by the noise
\* deviation, which is 0 exactly when the signal power is 0
Noise(self, is_complex, seed) ==
    LET x == self.pulse_shaped_delayed
        dev == IF \A j \in 1..Len(x) : x[j] = 0 THEN 0 ELSE One \div 4
    IN  [j \in 1..Len(x) |->
            IF is_complex
            THEN <<FAdd(x[j], FMul(dev, Randn(seed, j) * One)),
                   FMul(dev, Randn(seed, Len(x) + j) * One)>>
            ELSE <<FAdd(x[j], FMul(dev, Randn(seed, j) * One)), 0>>]

\* SymbolGenerator.pulsestream: each symbol followed by sps - 1 zeros
PulseStream(symbol_stream, sps) ==
    [n \in 1..(Len(symbol_stream) * sps) |->
        IF (n - 1) % sps = 0 THEN symbol_stream[((n - 1) \div sps) + 1] * One ELSE 0]

(***************************************************************************)
(* State.                                                                  *)
(***************************************************************************)
VARIABLES
    pc,                 \* where the caller of the detector stands
    upsample,           \* TimingErrorDetector.upsample
    interpolated_pulse, \* TimingErrorDetector.interpolated_pulse
    self_offset,        \* TimingErrorDetector.offset
    self_error,         \* TimingErrorDetector.error
    self_symbols_pred,  \* TimingErrorDetector.symbols_pred
    self_out_signal,    \* TimingErrorDetector.out_signal
    signal,             \* the argument of the last interpolator call
    args,               \* the arguments of the running main call
    loop,               \* the locals of the running main call
    stats,              \* what results returned
    ps,                 \* the PulseShaper object
    ps_pc,              \* where the caller of the PulseShaper stands
    ps_ran,             \* the PulseShaper operations that have run, in order
    runs                \* the experiment runs of the sweep

tedVars == <<upsample, interpolated_pulse, self_offset, self_error,
             self_symbols_pred, self_out_signal>>
mainVars == <<pc, signal, args, loop, stats>>
psVars == <<ps, ps_pc, ps_ran>>
vars == <<tedVars, mainVars, psVars, runs>>

NoArgs == [num_samples |-> 0, sps |-> 1, error_eq |-> "mueller", tau |-> 0,
           gain |-> 0, Kp |-> 0, Ki |-> 0, delta |-> DefaultDelta,
           symbol_prev |-> 0, use_pi |-> FALSE]
NoLoop == [i_cur |-> 0, tau |-> 0, v |-> 0, symbol_prev |-> 0, error |-> <<>>,
           offset |-> <<>>, symbols_pred |-> <<>>, out_signal |-> <<>>,
           reads |-> <<>>, exc |-> ""]
NoStats == [exc |-> "", nan |-> FALSE, num_correct |-> 0, num_symbols |-> 0,
            perc_correct |-> <<0, 1>>, ber |-> <<0, 1>>, final_offset |-> 0,
            symbols |-> <<>>, keep_all |-> TRUE]
NoShaper == [rc_taps |-> 0]

(***************************************************************************)
(* Inputs.                                                                 *)
(***************************************************************************)
\* samples of the noisy channel output: a symbol, a symbol with quadrature
\* noise, a sample near a zero crossing
SampleValues == {<<One, 0>>, <<-One, One>>, <<1, -1>>}

RECURSIVE SeqsOf(_, _)
SeqsOf(S, n) == IF n = 0 THEN {<<>>}
                ELSE {Append(q, x) : q \in SeqsOf(S, n - 1), x \in S}

SeqsUpTo(S, lo, hi) == UNION {SeqsOf(S, n) : n \in lo..hi}

Signals == SeqsUpTo(SampleValues, 1, MaxSignalLen)

UpsampleChoices == {InterpFactor \div 2, InterpFactor}

Methods == {"mueller", "gardner", "earlylategate"}

\* loop-filter settings: fixed gain 1.0, fixed gain 0.25, PI
FilterModes == {[use_pi |-> FALSE, gain |-> One, Kp |-> One \div 4, Ki |-> One \div 8],
                [use_pi |-> FALSE, gain |-> One \div 4, Kp |-> One \div 4, Ki |-> One \div 8],
                [use_pi |-> TRUE, gain |-> One, Kp |-> One \div 4, Ki |-> One \div 8]}

\* initial phases: 0.0 (the default), 0.75, 0.875
TauChoices == {0, 3 * (One \div 4), 7 * (One \div 8)}

SpsChoices == {1, 2}

MainArgs(sig) ==
    {[num_samples |-> Len(sig), sps |-> s, error_eq |-> m, tau |-> t,
      gain |-> f.gain, Kp |-> f.Kp, Ki |-> f.Ki, delta |-> DefaultDelta,
      symbol_prev |-> 0, use_pi |-> f.use_pi] :
        s \in SpsChoices, m \in Methods, t \in TauChoices, f \in FilterModes}

(***************************************************************************)
(* The detector: interpolator, then main, iteration by iteration.          *)
(***************************************************************************)
Init ==
    /\ pc = "constructed"
    /\ upsample \in UpsampleChoices
    /\ interpolated_pulse = <<>>
    /\ self_offset = <<>>
    /\ self_error = <<>>
    /\ self_symbols_pred = <<>>
    /\ self_out_signal = <<>>
    /\ signal = <<>>
    /\ args = NoArgs
    /\ loop = NoLoop
    /\ stats = NoStats
    /\ ps = NoShaper
    /\ ps_pc = "unused"
    /\ ps_ran = <<>>
    /\ runs = <<>>

CallInterpolator ==
    /\ pc = "constructed"
    /\ \E sig \in Signals :
        /\ signal' = sig
        /\ interpolated_pulse' = Interpolate(sig, upsample)
    /\ pc' = "interpolated"
    /\ UNCHANGED <<upsample, self_offset, self_error, self_symbols_pred,
                   self_out_signal, args, loop, stats, psVars, runs>>

CallMain ==
    /\ pc = "interpolated"
    /\ \E A \in MainArgs(signal) :
        /\ args' = A
        /\ loop' = MainEntry(A, interpolated_pulse)
    /\ pc' = "loop"
    /\ UNCHANGED <<tedVars, signal, stats, psVars, runs>>

IterMueller ==
    /\ pc = "loop"
    /\ args.error_eq = "mueller"
    /\ loop.i_cur < args.num_samples
    /\ loop' = MainStep(loop, args, interpolated_pulse, upsample)
    /\ pc' = IF loop'.exc # "" THEN "raised" ELSE "loop"
    /\ UNCHANGED <<tedVars, signal, args, stats, psVars, runs>>

IterGardner ==
    /\ pc = "loop"
    /\ args.error_eq = "gardner"
    /\ loop.i_cur < args.num_samples
    /\ loop' = MainStep(loop, args, interpolated_pulse, upsample)
    /\ pc' = IF loop'.exc # "" THEN "raised" ELSE "loop"
    /\ UNCHANGED <<tedVars, signal, args, stats, psVars, runs>>

IterEarlyLate ==
    /\ pc = "loop"
    /\ args.error_eq = "earlylategate"
    /\ loop.i_cur < args.num_samples
    /\ loop' = MainStep(loop, args, interpolated_pulse, upsample)
    /\ pc' = IF loop'.exc # "" THEN "raised" ELSE "loop"
    /\ UNCHANGED <<tedVars, signal, args, stats, psVars, runs>>

MainReturn ==
    /\ pc = "loop"
    /\ ~(loop.i_cur < args.num_samples)
    /\ self_offset' = loop.offset
    /\ self_error' = loop.error
    /\ self_symbols_pred' = loop.symbols_pred
    /\ self_out_signal' = loop.out_signal
    /\ pc' = "returned"
    /\ UNCHANGED <<upsample, interpolated_pulse, signal, args, loop, stats,
                   psVars, runs>>

Next ==
    \/ CallInterpolator
    \/ CallMain
    \/ IterMueller
    \/ IterGardner
    \/ IterEarlyLate
    \/ MainReturn

Spec == Init /\ [][Next]_vars


(***************************************************************************)
(* The PulseShaper: construction, then pulseshaping, fractionaldelay and   *)
(* noise, in the order the orchestration calls them.                       *)
(***************************************************************************)
\* rolloff 0.25, and 1.5 (outside [0, 1])
RolloffChoices == {One \div 4, 3 * (One \div 2)}

\* no fractional delay, or half a sample
FracDelayChoices == {0, One \div 2}

NoiseSeeds == {1, 2}

SymbolStreams == SeqsUpTo({1, -1}, 1, MaxSymbols)

DetectorIdle ==
    /\ pc = "unused"
    /\ upsample = InterpFactor
    /\ interpolated_pulse = <<>>
    /\ self_offset = <<>>
    /\ self_error = <<>>
    /\ self_symbols_pred = <<>>
    /\ self_out_signal = <<>>
    /\ signal = <<>>
    /\ args = NoArgs
    /\ loop = NoLoop
    /\ stats = NoStats

ShaperInit ==
    /\ DetectorIdle
    /\ runs = <<>>
    /\ \E rc_taps \in 1..MaxRcTaps, rolloff \in RolloffChoices, sps \in SpsChoices,
          int_delay \in 0..MaxDelay, frac_delay \in FracDelayChoices,
          sinc_taps \in 0..MaxSincTaps :
        ps = PulseShaperInit(rc_taps, rolloff, sps, int_delay, frac_delay,
                             sinc_taps, One)
    /\ ps_pc = "constructed"
    /\ ps_ran = <<>>

CallPulseshaping ==
    /\ ps_pc = "constructed"
    /\ \E sym \in SymbolStreams, keep_edges \in BOOLEAN :
        LET pulses == PulseStream(sym, ps.sps)
            r == Pulseshaping(ps, pulses, keep_edges)
        IN  IF r.exc # ""
            THEN /\ ps_pc' = "raised"
                 /\ UNCHANGED <<ps, ps_ran>>
            ELSE /\ ps' = [ps EXCEPT !.pulse_shaped = r.out]
                 /\ ps_pc' = "shaped"
                 /\ ps_ran' = Append(ps_ran, [op |-> "pulseshaping", pulses |-> pulses,
                                              keep_edges |-> keep_edges])
    /\ UNCHANGED <<tedVars, mainVars, runs>>

CallFractionaldelay ==
    /\ ps_pc = "shaped"
    /\ \E keep_edges \in BOOLEAN :
        LET r == Fractionaldelay(ps, keep_edges)
        IN  IF r.exc # ""
            THEN /\ ps_pc' = "raised"
                 /\ UNCHANGED <<ps, ps_ran>>
            ELSE /\ ps' = [ps EXCEPT !.pulse_shaped_delayed = r.out]
                 /\ ps_pc' = "delayed"
                 /\ ps_ran' = Append(ps_ran, [op |-> "fractionaldelay", pulses |-> <<>>,
                                              keep_edges |-> keep_edges])
    /\ UNCHANGED <<tedVars, mainVars, runs>>

CallNoise ==
    /\ ps_pc = "delayed"
    /\ \E is_complex \in BOOLEAN, seed \in NoiseSeeds :
        /\ ps' = [ps EXCEPT !.pulse_shaped_delayed_noise = Noise(ps, is_complex, seed)]
        /\ ps_ran' = Append(ps_ran, [op |-> "noise", pulses |-> <<>>,
                                     keep_edges |-> is_complex])
    /\ ps_pc' = "noisy"
    /\ UNCHANGED <<tedVars, mainVars, runs>>

ShaperNext ==
    \/ CallPulseshaping
    \/ CallFractionaldelay
    \/ CallNoise

SpecShaper == ShaperInit /\ [][ShaperNext]_vars


(***************************************************************************)
(* results, on the traces a finished main call left in the detector.       *)
(***************************************************************************)
\* decision traces of main: the initial condition followed by the decisions.
\* Short runs are enumerated; a long run is one of two acquisition patterns
\* over the preamble followed by free decisions.
SteadyOnes == [j \in 1..Preamble |-> IF j = 1 THEN 0 ELSE One]
Alternating == [j \in 1..Preamble |-> IF j % 2 = 1 THEN One ELSE -One]

DecisionTraces ==
    SeqsUpTo({One, -One, 0}, 1, MaxShort + 1)
    \cup {p \o t : p \in {SteadyOnes, Alternating},
                   t \in SeqsUpTo({One, -One}, 0, MaxTail)}

\* true symbol streams handed to results
SymbolArgs ==
    SeqsUpTo({1, -1}, 1, MaxShort + 1)
    \cup {[j \in 1..Preamble |-> q[j] \div One] \o t :
              q \in {[SteadyOnes EXCEPT ![1] = One], Alternating},
              t \in SeqsUpTo({1, -1}, 0, MaxTail)}

FinalOffsets == {0, One \div 2}

ResultsInit ==
    /\ pc = "returned"
    /\ upsample = InterpFactor
    /\ interpolated_pulse = <<>>
    /\ self_symbols_pred \in DecisionTraces
    /\ \E last \in FinalOffsets :
        self_offset = [j \in 1..(Len(self_symbols_pred) - 1) |->
                          IF j = Len(self_symbols_pred) - 1 THEN last ELSE 0]
    /\ self_error = Zeros(Len(self_symbols_pred) - 1)
    /\ self_out_signal = [j \in 1..Len(self_symbols_pred) |-> <<0, 0>>]
    /\ signal = <<>>
    /\ args = NoArgs
    /\ loop = NoLoop
    /\ stats = NoStats
    /\ ps = NoShaper
    /\ ps_pc = "unused"
    /\ ps_ran = <<>>
    /\ runs = <<>>

ResultsKeepAll ==
    /\ pc = "returned"
    /\ \E symbols \in SymbolArgs, legacy \in BOOLEAN :
        stats' = Results(self_symbols_pred, self_offset, symbols, TRUE, legacy)
    /\ pc' = IF stats'.exc # "" THEN "raised" ELSE "reported"
    /\ UNCHANGED <<tedVars, signal, args, loop, psVars, runs>>

ResultsDiscardPreamble ==
    /\ pc = "returned"
    /\ \E symbols \in SymbolArgs, legacy \in BOOLEAN :
        stats' = Results(self_symbols_pred, self_offset, symbols, FALSE, legacy)
    /\ pc' = IF stats'.exc # "" THEN "raised" ELSE "reported"
    /\ UNCHANGED <<tedVars, signal, args, loop, psVars, runs>>

ResultsNext ==
    \/ ResultsKeepAll
    \/ ResultsDiscardPreamble

SpecResults == ResultsInit /\ [][ResultsNext]_vars


(***************************************************************************)
(* The sweep of testbench.py: one PulseShaper (PulseObj) and one detector  *)
(* (TED) serve every run.  A run is noise, interpolator, main, results;    *)
(* the operations of two runs are taken in any order.                      *)
(***************************************************************************)
RunIds == {1, 2}

\* main called as the sweep calls it: every optional argument at its default
SweepArgs(num_samples, sps, method) ==
    [num_samples |-> num_samples, sps |-> sps, error_eq |-> method, tau |-> 0,
     gain |-> RoundRat(One, 10), Kp |-> RoundRat(One, 100),
     Ki |-> RoundRat(One, 10000), delta |-> DefaultDelta, symbol_prev |-> 0,
     use_pi |-> FALSE]

\* PulseObj after PulseShaper(...), pulseshaping(pulse_stream), fractionaldelay()
SweepShaper(symbol_stream) ==
    LET p0 == PulseShaperInit(MaxRcTaps, One \div 4, 1, 0, 0, 0, 0)
        p1 == [p0 EXCEPT !.pulse_shaped =
                  Pulseshaping(p0, PulseStream(symbol_stream, 1), TRUE).out]
    IN  [p1 EXCEPT !.pulse_shaped_delayed = Fractionaldelay(p1, FALSE).out]

\* what main hands back, and what it leaves in the detector
MainOutcome(buf, up, A) == RunLoop(MainEntry(A, buf), A, buf, up)

\* a run executed alone on a PulseShaper in state p
SoloOut(p, run) ==
    LET noisy == Noise([p EXCEPT !.snr = run.snr], TRUE, run.seed)
    IN  MainOutcome(Interpolate(noisy, InterpFactor), InterpFactor,
                    SweepArgs(Len(noisy), p.sps, run.method))

SoloStats(p, run) ==
    LET out == SoloOut(p, run)
    IN  Results(out.symbols_pred, out.offset, run.symbols, TRUE, FALSE)

RunsInit ==
    /\ DetectorIdle
    /\ ps_pc = "delayed"
    /\ ps_ran = <<>>
    /\ \E sym \in SeqsOf({1, -1}, MaxSymbols) :
        /\ ps = SweepShaper(sym)
        /\ \E s1 \in NoiseSeeds, s2 \in NoiseSeeds, m1 \in Methods, m2 \in Methods :
            runs = [r \in RunIds |->
                      [pc |-> "start", snr |-> r * One,
                       seed |-> IF r = 1 THEN s1 ELSE s2,
                       method |-> IF r = 1 THEN m1 ELSE m2,
                       symbols |-> sym \o <<1, 1>>,
                       out |-> NoLoop, stats |-> NoStats]]

RunNoise(r) ==
    /\ runs[r].pc = "start"
    /\ ps' = [ps EXCEPT !.snr = runs[r].snr,
                        !.pulse_shaped_delayed_noise =
                            Noise([ps EXCEPT !.snr = runs[r].snr], TRUE, runs[r].seed)]
    /\ runs' = [runs EXCEPT ![r].pc = "noisy"]
    /\ UNCHANGED <<tedVars, mainVars, ps_pc, ps_ran>>

RunInterpolator(r) ==
    /\ runs[r].pc = "noisy"
    /\ interpolated_pulse' = Interpolate(ps.pulse_shaped_delayed_noise, upsample)
    /\ runs' = [runs EXCEPT ![r].pc = "interpolated"]
    /\ UNCHANGED <<upsample, self_offset, self_error, self_symbols_pred,
                   self_out_signal, mainVars, psVars>>

RunMain(r) ==
    /\ runs[r].pc = "interpolated"
    /\ \E A \in {SweepArgs(Len(ps.pulse_shaped_delayed_noise), ps.sps, runs[r].method)} :
       \E L \in {MainOutcome(interpolated_pulse, upsample, A)} :
           IF L.exc # ""
           THEN /\ runs' = [runs EXCEPT ![r].pc = "raised", ![r].out = L]
                /\ UNCHANGED <<self_offset, self_error, self_symbols_pred,
                               self_out_signal>>
           ELSE /\ runs' = [runs EXCEPT ![r].pc = "ran", ![r].out = L]
                /\ self_offset' = L.offset
                /\ self_error' = L.error
                /\ self_symbols_pred' = L.symbols_pred
                /\ self_out_signal' = L.out_signal
    /\ UNCHANGED <<upsample, interpolated_pulse, mainVars, psVars>>

RunResults(r) ==
    /\ runs[r].pc = "ran"
    /\ LET st == Results(self_symbols_pred, self_offset, runs[r].symbols, TRUE, FALSE)
       IN  runs' = [runs EXCEPT ![r].pc = IF st.exc # "" THEN "raised" ELSE "done",
                                ![r].stats = st]
    /\ UNCHANGED <<tedVars, mainVars, psVars>>

RunsNext ==
    \E r \in RunIds :
        \/ RunNoise(r)
        \/ RunInterpolator(r)
        \/ RunMain(r)
        \/ RunResults(r)

SpecRuns == RunsInit /\ [][RunsNext]_vars


(***************************************************************************)
(* Claims.                                                                 *)
(***************************************************************************)

\* C1: every phase appended to the offset trace after the wrap step
\* satisfies 0 <= tau < sps, for every metric, filter mode and error.
C1_TauInRange ==
    \A k \in 1..Len(loop.offset) :
        0 <= loop.offset[k] /\ loop.offset[k] < FromInt(args.sps)

\* the offset the interrupted or next iteration computes
CurOffset == OffsetCur(loop.i_cur, loop.tau, upsample)

\* the forward index of the Early-Late Gate is not a valid index
ForwardInvalid ==
    CurOffset + Shift(args.sps, args.delta, upsample) >= Len(interpolated_pulse)

\* C2: an Early-Late Gate iteration whose forward index offset_cur + shift is
\* not a valid index of the buffer (equality and the first iteration
\* included) does not fail.
C2_StarvedIterationCompletes ==
    ~(/\ pc = "raised"
      /\ args.error_eq = "earlylategate"
      /\ InRange(interpolated_pulse, CurOffset)
      /\ ForwardInvalid)

\* C3: with no fractional delay, fractionaldelay returns as many samples as
\* the pulse-shaped input, the first int_delay of them zero and sample i the
\* input's sample i - int_delay, for every int_delay >= 0.
C3_IntegerDelayShifts ==
    (ps_pc = "delayed" /\ ps.frac_delay = 0 /\ ps.pulse_shaped # <<>>) =>
        /\ Len(ps.pulse_shaped_delayed) = Len(ps.pulse_shaped)
        /\ \A i \in 1..Len(ps.pulse_shaped) :
            ps.pulse_shaped_delayed[i] =
                IF i <= ps.int_delay THEN 0 ELSE ps.pulse_shaped[i - ps.int_delay]

\* C4: for odd rc_taps >= 1, pulseshaping without keep_edges returns
\* len(pulses) samples, the full convolution less (rc_taps - 1)/2 samples at
\* each end; with keep_edges it returns all len(pulses) + rc_taps - 1.
C4_PulseshapingTrims ==
    (ps_pc = "shaped" /\ ps.rc_taps % 2 = 1) =>
        LET call == ps_ran[1]
            full == Convolve(call.pulses, ps.raised_cosine)
            half == (ps.rc_taps - 1) \div 2
        IN  IF call.keep_edges
            THEN /\ Len(ps.pulse_shaped) = Len(call.pulses) + ps.rc_taps - 1
                 /\ ps.pulse_shaped = full
            ELSE /\ Len(ps.pulse_shaped) = Len(call.pulses)
                 /\ \A i \in 1..Len(call.pulses) : ps.pulse_shaped[i] = full[half + i]

\* C5: results with keep_all = False on a run of no more decisions than the
\* preamble returns no statistics.
C5_ShortRunRejected ==
    ~(/\ pc = "reported"
      /\ ~stats.keep_all
      /\ Len(self_symbols_pred) <= Preamble)

\* a tap count or rolloff the kernels cannot be built from; the sinc tap
\* count matters only where a fractional delay asks for the sinc kernel
InvalidKernelParameters(self) ==
    \/ self.rc_taps <= 0
    \/ self.frac_delay # 0 /\ (self.sinc_taps <= 0 \/ self.sinc_taps % 2 = 0)
    \/ self.rolloff < 0
    \/ self.rolloff > One

\* C6: no signal-processing operation runs on a PulseShaper whose kernel
\* parameters are invalid.
C6_InvalidConfigRunsNothing ==
    (ps_pc # "unused" /\ InvalidKernelParameters(ps)) => ps_ran = <<>>

\* the positions results compares, 0-based
ComparedPositions == (IF stats.keep_all THEN 0 ELSE Preamble)..(Len(self_symbols_pred) - 1)

Matches == {i \in ComparedPositions :
                self_symbols_pred[i + 1] = stats.symbols[i + 1] * One}

\* results returned statistics for a symbol stream as long as the decisions
Compared ==
    /\ pc = "reported"
    /\ Len(stats.symbols) = Len(self_symbols_pred)
    /\ ComparedPositions # {}

\* C7: results counts the positions (30 and later without keep_all, all of
\* them otherwise, position 0 included) where decision and symbol agree;
\* perc_correct = 100 * matches / compared, ber = 100 - perc_correct, and
\* final_offset is the last entry of the offset trace.
C7_Statistics ==
    Compared =>
        /\ ~stats.nan
        /\ stats.num_symbols = Cardinality(ComparedPositions)
        /\ stats.num_correct = Cardinality(Matches)
        /\ stats.perc_correct[1] * Cardinality(ComparedPositions)
             = 100 * Cardinality(Matches) * stats.perc_correct[2]
        /\ stats.ber[1] * stats.perc_correct[2]
             = (100 * stats.perc_correct[2] - stats.perc_correct[1]) * stats.ber[2]
        /\ stats.final_offset = Last(self_offset)

\* a run past the preamble, scored without it: some decisions right, some wrong
C7_Witness ==
    /\ Compared
    /\ ~stats.keep_all
    /\ Matches # {}
    /\ Matches # ComparedPositions

\* C8: interpolator returns len(signal) * upsample samples, upsample being
\* the factor the detector was constructed with.
C8_InterpolatedLength ==
    pc \in {"interpolated", "loop", "returned", "raised"} =>
        Len(interpolated_pulse) = Len(signal) * upsample

\* C9: whatever the order of the two runs' operations, each run's traces and
\* statistics are those it produces alone.
C9_RunsIsolated ==
    \A r \in DOMAIN runs :
        /\ runs[r].pc \in {"ran", "done", "raised"} =>
              runs[r].out = SoloOut(SweepShaper(SubSeq(runs[r].symbols, 1, MaxSymbols)), runs[r])
        /\ runs[r].pc = "done" =>
              runs[r].stats = SoloStats(SweepShaper(SubSeq(runs[r].symbols, 1, MaxSymbols)), runs[r])

\* the number of multiples of sps in [sps, num_samples)
Iterations(sps, num_samples) ==
    Cardinality({i \in sps..(num_samples - 1) : i % sps = 0})

\* the iterations main has completed
Completed == (loop.i_cur - args.sps) \div args.sps

\* C11: main ends after exactly K iterations, K the number of multiples of
\* sps in [sps, num_samples); after iteration k the error and offset traces
\* hold k entries and the decision and sampled-value traces k + 1, and on
\* return the traces hold K and K + 1 entries.
C11_TerminatesAfterK ==
    /\ pc # "raised"
    /\ pc \in {"loop", "returned"} =>
        /\ Len(loop.error) = Completed
        /\ Len(loop.offset) = Completed
        /\ Len(loop.symbols_pred) = Completed + 1
        /\ Len(loop.out_signal) = Completed + 1
    /\ pc = "returned" =>
        /\ Completed = Iterations(args.sps, args.num_samples)
        /\ Len(self_error) = Completed
        /\ Len(self_offset) = Completed
        /\ Len(self_symbols_pred) = Completed + 1
        /\ Len(self_out_signal) = Completed + 1

\* one pass through the loop body, whichever the metric
Iterating == IterMueller \/ IterGardner \/ IterEarlyLate

\* the integer nearest to num/den (num >= 0, den > 0), ties to even
RoundNearest(num, den) ==
    LET k == num \div den
        r == num - k * den
    IN  IF 2 * r > den \/ (2 * r = den /\ k % 2 = 1) THEN k + 1 ELSE k

\* C12: every iteration reads the current sample at index
\* upsample * i_cur + round(tau * upsample), for every tau in [0, sps).
C12_RoundedIndex ==
    [][(Iterating /\ 0 <= loop.tau /\ loop.tau < FromInt(args.sps)) =>
          loop'.reads[1] =
              upsample * loop.i_cur + RoundNearest(loop.tau * upsample, One)]_vars

\* C16: every decision an iteration records is +1 or -1.
C16_DecisionsArePlusMinusOne ==
    \A k \in 2..Len(loop.symbols_pred) : loop.symbols_pred[k] \in {One, -One}

\* a Mueller-Muller or Gardner run on a buffer of upsample * num_samples
\* samples, num_samples a multiple of sps, started with 0 <= tau < sps
WellSizedRun ==
    /\ pc \in {"loop", "raised", "returned"}
    /\ args.error_eq \in {"mueller", "gardner"}
    /\ Len(interpolated_pulse) = upsample * args.num_samples
    /\ args.num_samples % args.sps = 0
    /\ 0 <= args.tau /\ args.tau < FromInt(args.sps)

\* C17: in such a run every buffer index read lies in [0, len(buffer)).
C17_ReadsInRange ==
    WellSizedRun =>
        \A k \in 1..Len(loop.reads) :
            0 <= loop.reads[k] /\ loop.reads[k] < Len(interpolated_pulse)

\* the samples an iteration that completed has read
ReadCur == PyGet(interpolated_pulse, loop'.reads[1])
ReadPrev == PyGet(interpolated_pulse, loop'.reads[1] - args.sps * upsample)
ReadMiddle == PyGet(interpolated_pulse, loop'.reads[1] - (args.sps * upsample) \div 2)

\* C13: the Mueller-Muller error of an iteration is
\* Re(val_cur * conj(symbol_prev)) - Re(sign(Re(val_cur)) * conj(val_prev)),
\* val_prev read sps * upsample indices before val_cur and symbol_prev the
\* decision the iteration before recorded (the initial condition at first);
\* the iteration's own decision is recorded after the error.
C13_MuellerMullerError ==
    [][(IterMueller /\ loop'.exc = "") =>
          /\ loop'.reads = <<loop'.reads[1], loop'.reads[1] - args.sps * upsample>>
          /\ Last(loop'.error) =
                FSub(Re(CMul(ReadCur, Conj(OfReal(Last(loop.symbols_pred))))),
                     Re(CMul(OfReal(Sign(Re(ReadCur))), Conj(ReadPrev))))
          /\ Last(loop'.symbols_pred) = Sign(Re(ReadCur))
          /\ Len(loop'.symbols_pred) = Len(loop.symbols_pred) + 1]_vars

\* a Mueller-Muller iteration whose decision differs from the one before it
C13_Witness ==
    /\ pc = "loop"
    /\ args.error_eq = "mueller"
    /\ Len(loop.error) >= 2
    /\ Last(loop.error) # 0
    /\ Last(loop.symbols_pred) # loop.symbols_pred[Len(loop.symbols_pred) - 1]

\* C14: a Gardner iteration records, and applies to the loop filter, the
\* negation of Re(conj(val_middle) * (val_cur - val_prev)), val_prev read
\* sps * upsample and val_middle sps * upsample / 2 indices before val_cur;
\* a Mueller-Muller iteration applies its error as it is.
C14_GardnerNegated ==
    [][/\ (IterGardner /\ loop'.exc = "") =>
            /\ Last(loop'.error) =
                  -Re(CMul(Conj(ReadMiddle), CSub(ReadCur, ReadPrev)))
            /\ loop'.tau = Wrap(FilterTau(loop, args, Last(loop'.error)), args.sps)
       /\ (IterMueller /\ loop'.exc = "") =>
            /\ Last(loop'.error) = mueller_muller(ReadCur, ReadPrev, loop.symbol_prev)
            /\ loop'.tau = Wrap(FilterTau(loop, args, Last(loop'.error)), args.sps)]_vars

\* a Gardner iteration that recorded a non-zero error and moved the phase
C14_Witness ==
    /\ pc = "loop"
    /\ args.error_eq = "gardner"
    /\ loop.error # <<>>
    /\ Last(loop.error) # 0
    /\ Last(loop.offset) # args.tau

\* C15: the phase before the wrap advances by gain * error with the fixed
\* gain, and by v' + Kp * error with the PI filter, v' = v + Ki * error
\* being the integral term the same iteration updated; v is 0 at loop start
\* and is otherwise only ever accumulated.
C15_LoopFilter ==
    [][/\ CallMain => loop'.v = 0
       /\ (Iterating /\ loop'.exc = "") =>
            LET e == Last(loop'.error)
            IN  IF args.use_pi
                THEN /\ loop'.v = FAdd(loop.v, FMul(args.Ki, e))
                     /\ loop'.tau =
                          FMod(FAdd(loop.tau, FAdd(loop'.v, FMul(args.Kp, e))),
                               FromInt(args.sps))
                ELSE /\ loop'.v = loop.v
                     /\ loop'.tau =
                          FMod(FAdd(loop.tau, FMul(args.gain, e)),
                               FromInt(args.sps))]_vars

\* a PI run whose integral term has built up over two iterations
C15_Witness ==
    /\ pc = "loop"
    /\ args.use_pi
    /\ Len(loop.error) >= 2
    /\ loop.v # 0
    /\ loop.v # FMul(args.Ki, Last(loop.error))

=============================================================================
